---------------------------- MODULE Spec2Model ----------------------------
(***************************************************************************)
(* A model of src/src/AsyncJson.h: the request-body accumulator of         *)
(* AsyncJsonHandlerBase, the one-shot handler AsyncCallbackJsonWebHandler  *)
(* and the chunked handler AsyncJsonStreamCallback with its timer.         *)
(*                                                                         *)
(* Payload bytes are symbolic: the byte request r carries at body offset i *)
(* is the pair <<r, i>>.  The code never inspects a byte (it only memcpy's *)
(* them), so distinct symbols lose nothing and show where every byte of    *)
(* the accumulator came from.  A malloc'ed byte nobody wrote is Uninit.    *)
(***************************************************************************)
EXTENDS Integers, Sequences, FiniteSets, TLC

\* ------------------------------------------------------------------ bounds
\* #define MAX_JSON_CONTENT_LENGTH 16384 and CHUNK_OBJ_SIZE 512 are #ifndef
\* build-time macros; the model builds with small values.
MAX_JSON_CONTENT_LENGTH == 5
CHUNK_OBJ_SIZE == 2
\* size_t is SizeBits wide: index + len in handleBody is taken modulo 2^SizeBits.
SizeBits == 3
\* The largest fragment the transport delivers in one handleBody call.
MaxFragLen == 3
\* The number of requests the server routes to the handler in one behaviour.
MaxRequests == 2
\* The number of handleBody calls the server makes for one request.
MaxFrags == 2

SizeModulus == 2 ^ SizeBits
SizeMax == SizeModulus - 1
\* Declared totals: no body, a body of two chunks the second one short, the
\* default maximum, and one byte more than the maximum.
MaxTotal == MAX_JSON_CONTENT_LENGTH + 1
Totals == {0, CHUNK_OBJ_SIZE + 1, MAX_JSON_CONTENT_LENGTH, MaxTotal}
\* The maxima setMaxContentLength is called with.
MaxLengths == {CHUNK_OBJ_SIZE + 1, MAX_JSON_CONTENT_LENGTH}

\* ----------------------------------------------------------------- helpers
NULL == <<>>
Uninit == <<0, 0>>
Min(a, b) == IF a < b THEN a ELSE b
AddSizeT(a, b) == (a + b) % SizeModulus

\* The bytes of request r's body from offset index on, len of them.
Payload(r, index, len) == [k \in 1..len |-> <<r, index + k - 1>>]

Platforms == {"ESP8266", "ESP32", "OTHER"}
Kinds == {"oneshot", "stream"}

VARIABLES
    kind,               \* which handler class the instance is
    platform,           \* which #ifdef branch the build took
    alive,              \* constructed and not yet destroyed
    _maxContentLength,
    _contentLength,
    _tempObject,        \* NULL or the sequence of the buffer's bytes
    _tempObjectSize,
    _bufferReady,
    _onRequest,         \* TRUE iff the std::function holds a callable
    _currentRequest,    \* 0 is nullptr
    _processIndex,
    _timerInitialized,
    _chunkTimer,        \* 0 is nullptr, else the handle esp_timer_create gave
    armed,              \* the Ticker / esp_timer is scheduled to fire
    inflight,           \* ESP32: "live" or "stale" once the timer task has dispatched
                        \* the callback and not yet run it, else "none"
    timers,             \* ESP32: the handles created and not deleted
    calls,              \* per request, the <<offset, length>> slices the user callback got
    ev,                 \* what the last operation did
    rx,                 \* the request whose body the server is delivering
    declared,           \* per request, its declared total (-1: not begun)
    nextId,             \* id of the next request
    task,               \* where the main loop's and the timer task's code stands
    _destination,       \* ChunkPrint: the bytes of the destination, _max_size of them
    _to_skip,
    _to_write,
    _pos,
    _max_size,
    wr,                 \* what the ChunkPrint writes so far did
    _jsonBuffer,        \* AsyncJsonResponse: the bytes of _jsonBuffer.s
    _isValid,
    _sentLength,        \* of AsyncAbstractResponse: the bytes sent so far
    fill,               \* what the last _fillBuffer call was given and gave
    chk                 \* a handleBody call on a buffer of a given capacity

hvars == <<_maxContentLength, _contentLength, _tempObject, _tempObjectSize,
           _bufferReady, _onRequest, _currentRequest, _processIndex,
           _timerInitialized, _chunkTimer, armed, inflight, timers, calls, ev>>
\* The handler with its server, and the classes beside it.
svars == <<kind, platform, alive, hvars, rx, declared, nextId, task>>
uvars == <<_destination, _to_skip, _to_write, _pos, _max_size, wr,
           _jsonBuffer, _isValid, _sentLength, fill, chk>>
vars == <<svars, uvars>>

\* The handler's fields and the effects of the running operation, as one record
\* the methods pass along.
self ==
    [_maxContentLength |-> _maxContentLength, _contentLength |-> _contentLength,
     _tempObject |-> _tempObject, _tempObjectSize |-> _tempObjectSize,
     _bufferReady |-> _bufferReady, _onRequest |-> _onRequest,
     _currentRequest |-> _currentRequest, _processIndex |-> _processIndex,
     _timerInitialized |-> _timerInitialized, _chunkTimer |-> _chunkTimer,
     armed |-> armed, inflight |-> inflight, timers |-> timers,
     calls |-> calls, ev |-> ev]

Commit(s) ==
    /\ _maxContentLength' = s._maxContentLength
    /\ _contentLength' = s._contentLength
    /\ _tempObject' = s._tempObject
    /\ _tempObjectSize' = s._tempObjectSize
    /\ _bufferReady' = s._bufferReady
    /\ _onRequest' = s._onRequest
    /\ _currentRequest' = s._currentRequest
    /\ _processIndex' = s._processIndex
    /\ _timerInitialized' = s._timerInitialized
    /\ _chunkTimer' = s._chunkTimer
    /\ armed' = s.armed
    /\ inflight' = s.inflight
    /\ timers' = s.timers
    /\ calls' = s.calls
    /\ ev' = s.ev

\* The record of an operation that has done nothing yet.
NoEvent(op, request) ==
    [op |-> op, req |-> request, status |-> 0, ncalls |-> 0, data |-> <<>>,
     allocated |-> FALSE, allocFailed |-> FALSE, copied |-> FALSE,
     dropped |-> FALSE, oobWrite |-> FALSE, oobRead |-> FALSE,
     cleaned |-> FALSE, scheduled |-> FALSE, stale |-> FALSE,
     parsed |-> "none"]

Begin(s, op, request) == [s EXCEPT !.ev = NoEvent(op, request)]

\* request->send(code, ...)
send(s, request, code) == [s EXCEPT !.ev.status = code]

\* ------------------------------------------------- AsyncJsonHandlerBase
\* allocateBuffer: the new fields and the value returned.
allocateBuffer(s, size, mallocOK) ==
    IF size = 0 \/ size > s._maxContentLength
    THEN [st |-> s, ret |-> FALSE]
    ELSE IF s._tempObject = NULL \/ s._tempObjectSize < size
         THEN IF ~mallocOK
              THEN [st |-> [s EXCEPT !._tempObject = NULL,
                                     !._tempObjectSize = 0,
                                     !._bufferReady = FALSE,
                                     !.ev.allocFailed = TRUE],
                    ret |-> FALSE]
              ELSE [st |-> [s EXCEPT !._tempObject = [i \in 1..size |-> Uninit],
                                     !._tempObjectSize = size,
                                     !._bufferReady = TRUE,
                                     !.ev.allocated = TRUE],
                    ret |-> TRUE]
         ELSE [st |-> [s EXCEPT !._bufferReady = TRUE], ret |-> TRUE]

\* memcpy(_tempObject.get() + index, data, len): the bytes that land inside the
\* allocation are stored; a byte outside it is a write to foreign memory.
memcpy(s, index, data) ==
    [s EXCEPT !._tempObject =
                  [i \in 1..Len(@) |->
                      IF i > index /\ i <= index + Len(data)
                      THEN data[i - index] ELSE @[i]],
              !.ev.copied = TRUE,
              !.ev.oobWrite = (index + Len(data) > Len(s._tempObject))]

\* The bounds check of handleBody, in size_t arithmetic.
FragmentFits(index, len, capacity) == AddSizeT(index, len) <= capacity

\* handleBody up to its bounds check: the fields, and whether memcpy follows.
\* This variant lacks the early return for a total over the maximum.
handleBodyCheck_NoLimit(s, request, data, index, total, mallocOK) ==
    IF request = 0 \/ Len(data) = 0 THEN [st |-> s, fits |-> FALSE]
    ELSE LET s1 == [s EXCEPT !._contentLength = total]
             a == IF s1._tempObject = NULL
                  THEN allocateBuffer(s1, total, mallocOK)
                  ELSE [st |-> s1, ret |-> TRUE]
         IN  IF ~a.ret THEN [st |-> a.st, fits |-> FALSE]
             ELSE IF a.st._tempObject # NULL
                     /\ FragmentFits(index, Len(data), a.st._tempObjectSize)
                  THEN [st |-> a.st, fits |-> TRUE]
                  ELSE [st |-> [a.st EXCEPT !.ev.dropped = TRUE], fits |-> FALSE]

\* handleBody up to its bounds check: the fields, and whether memcpy follows.
handleBodyCheck(s, request, data, index, total, mallocOK) ==
    IF request = 0 \/ Len(data) = 0 THEN [st |-> s, fits |-> FALSE]
    ELSE LET s1 == [s EXCEPT !._contentLength = total] IN
         IF total > s1._maxContentLength THEN [st |-> s1, fits |-> FALSE]
         ELSE LET a == IF s1._tempObject = NULL
                       THEN allocateBuffer(s1, total, mallocOK)
                       ELSE [st |-> s1, ret |-> TRUE]
              IN  IF ~a.ret THEN [st |-> a.st, fits |-> FALSE]
                  ELSE IF a.st._tempObject # NULL
                          /\ FragmentFits(index, Len(data), a.st._tempObjectSize)
                       THEN [st |-> a.st, fits |-> TRUE]
                       ELSE [st |-> [a.st EXCEPT !.ev.dropped = TRUE],
                             fits |-> FALSE]

handleBody(s, request, data, index, total, mallocOK) ==
    LET c == handleBodyCheck(s, request, data, index, total, mallocOK) IN
    IF c.fits THEN memcpy(c.st, index, data) ELSE c.st

\* The user callback is handed `len` buffer bytes from offset `off` on behalf of
\* `request`; a byte past the allocation is a read of foreign memory.
invoke(s, request, off, len) ==
    [s EXCEPT !.calls = IF request \in DOMAIN @
                        THEN [@ EXCEPT ![request] = Append(@, <<off, len>>)]
                        ELSE @,
              !.ev.ncalls = @ + 1,
              !.ev.data = @ \o [k \in 1..len |->
                                   IF off + k <= Len(s._tempObject)
                                   THEN s._tempObject[off + k] ELSE Uninit],
              !.ev.oobRead = @ \/ (off + len > Len(s._tempObject))]

\* --------------------------------------------- AsyncCallbackJsonWebHandler
CallbackJson_cleanup(s) ==
    [s EXCEPT !._bufferReady = FALSE, !._tempObject = NULL,
              !._tempObjectSize = 0, !.ev.cleaned = TRUE]

\* The parser is handed _contentLength bytes of the buffer and answers parseOK.
parse(s, parseOK) ==
    [s EXCEPT !.ev.parsed = IF parseOK THEN "ok" ELSE "error",
              !.ev.oobRead = (s._contentLength > Len(s._tempObject))]

\* A handleRequest that returns after "Invalid JSON" without cleanup.
CallbackJson_handleRequest_NoCleanup(s, request, parseOK) ==
    IF ~s._onRequest THEN send(s, request, 500)
    ELSE IF s._contentLength > s._maxContentLength THEN send(s, request, 413)
    ELSE IF ~s._bufferReady \/ s._tempObject = NULL \/ s._contentLength = 0
         THEN send(s, request, 400)
    ELSE IF ~parseOK
         THEN send(parse(s, parseOK), request, 400)
    ELSE CallbackJson_cleanup(invoke(parse(s, parseOK), request, 0, s._contentLength))

\* parseOK is what gson::Parser answers for the bytes it was given.
CallbackJson_handleRequest(s, request, parseOK) ==
    IF ~s._onRequest THEN send(s, request, 500)
    ELSE IF s._contentLength > s._maxContentLength THEN send(s, request, 413)
    ELSE IF ~s._bufferReady \/ s._tempObject = NULL \/ s._contentLength = 0
         THEN send(s, request, 400)
    ELSE IF ~parseOK
         THEN CallbackJson_cleanup(send(parse(s, parseOK), request, 400))
    ELSE CallbackJson_cleanup(invoke(parse(s, parseOK), request, 0, s._contentLength))

\* ------------------------------------------------- AsyncJsonStreamCallback
\* cleanup, first half: the fields are reset and the buffer is released.
\* A callback already dispatched now belongs to a session that has ended.
Stream_cleanupRelease(s) ==
    [s EXCEPT !._currentRequest = 0, !._processIndex = 0, !._bufferReady = FALSE,
              !._tempObject = NULL, !._tempObjectSize = 0, !.ev.cleaned = TRUE,
              !.inflight = IF @ = "live" THEN "stale" ELSE @]

\* cleanup, second half: the timer is cancelled.  esp_timer_stop and
\* Ticker::detach take the timer off the schedule; a callback the ESP32 timer
\* task has already dispatched is not recalled.
Stream_cleanupTimer(s) ==
    CASE platform = "ESP8266" -> [s EXCEPT !.armed = FALSE]
      [] platform = "ESP32" ->
            IF s._timerInitialized /\ s._chunkTimer # 0
            THEN [s EXCEPT !.armed = FALSE, !._timerInitialized = FALSE]
            ELSE s
      [] OTHER -> s

Stream_cleanup(s) == Stream_cleanupTimer(Stream_cleanupRelease(s))

scheduleNextChunk(s) ==
    CASE platform = "ESP8266" -> [s EXCEPT !.armed = TRUE, !.ev.scheduled = TRUE]
      [] platform = "ESP32" ->
            IF s._timerInitialized
            THEN [s EXCEPT !.armed = TRUE, !.ev.scheduled = TRUE]
            ELSE s
      [] OTHER -> s

\* processNextChunk in its steps.  The guard on entry:
processNextChunkGuard(s) ==
    s._currentRequest = 0 \/ s._tempObject = NULL
        \/ s._processIndex >= s._tempObjectSize

chunkSize(s) == Min(CHUNK_OBJ_SIZE, s._tempObjectSize - s._processIndex)

\* malloc of the chunk, the copy out of the buffer and the user callback.
deliverChunk(s, chunk_size, mallocOK) ==
    IF ~mallocOK
    THEN [st |-> IF s._currentRequest # 0
                 THEN send(s, s._currentRequest, 500) ELSE s,
          ok |-> FALSE]
    ELSE [st |-> invoke(s, s._currentRequest, s._processIndex, chunk_size),
          ok |-> TRUE]

\* The cursor moves on; the timer is armed if bytes remain, else cleanup is due.
advanceChunk(s, chunk_size) ==
    LET s2 == [s EXCEPT !._processIndex = @ + chunk_size] IN
    IF s2._processIndex < s2._tempObjectSize
    THEN [st |-> scheduleNextChunk(s2), cleanup |-> FALSE]
    ELSE [st |-> s2, cleanup |-> TRUE]

processNextChunk(s, mallocOK) ==
    IF processNextChunkGuard(s) \/ chunkSize(s) = 0 THEN Stream_cleanup(s)
    ELSE LET d == deliverChunk(s, chunkSize(s), mallocOK) IN
         IF ~d.ok THEN Stream_cleanup(d.st)
         ELSE LET a == advanceChunk(d.st, chunkSize(s)) IN
              IF a.cleanup THEN Stream_cleanup(a.st) ELSE a.st

\* createOK: esp_timer_create answers ESP_OK and hands out handle `h`.
initializeTimer(s, createOK, h) ==
    IF s._timerInitialized THEN [st |-> s, ret |-> TRUE]
    ELSE IF createOK
         THEN [st |-> [s EXCEPT !._chunkTimer = h, !._timerInitialized = TRUE,
                                !.timers = @ \cup {h}],
               ret |-> TRUE]
         ELSE [st |-> s, ret |-> FALSE]

\* handleRequest up to the start of the session: the rejections.
Stream_handleRequestChecks(s, request) ==
    IF ~s._onRequest THEN [st |-> send(s, request, 500), pass |-> FALSE]
    ELSE IF s._contentLength > s._maxContentLength
         THEN [st |-> send(s, request, 413), pass |-> FALSE]
    ELSE IF ~s._bufferReady \/ s._tempObject = NULL \/ s._tempObjectSize = 0
         THEN [st |-> send(s, request, 400), pass |-> FALSE]
    ELSE [st |-> [s EXCEPT !._currentRequest = request, !._processIndex = 0],
          pass |-> TRUE]

Stream_handleRequest(s, request, createOK, mallocOK) ==
    LET c == Stream_handleRequestChecks(s, request)
        s1 == c.st
    IN  IF ~c.pass THEN s1
        ELSE CASE platform = "ESP8266" -> processNextChunk(s1, mallocOK)
               [] platform = "ESP32" ->
                     LET t == initializeTimer(s1, createOK, request) IN
                     IF ~t.ret
                     THEN Stream_cleanup(send(t.st, request, 500))
                     ELSE processNextChunk(t.st, mallocOK)
               [] OTHER ->
                     IF mallocOK
                     THEN Stream_cleanup(invoke(s1, s1._currentRequest, 0,
                                                s1._tempObjectSize))
                     ELSE Stream_cleanup(send(s1, request, 500))

\* ~AsyncJsonStreamCallback: cleanup, then the timer is deleted if the handler
\* still counts it as initialized; the members' destructors release the rest.
Stream_destructorDelete(s) ==
    IF platform = "ESP32" /\ s._timerInitialized /\ s._chunkTimer # 0
    THEN [s EXCEPT !.timers = @ \ {s._chunkTimer}]
    ELSE s

Stream_destructor(s) == Stream_destructorDelete(Stream_cleanup(s))

\* ~AsyncJsonHandlerBase (the one-shot handler adds nothing): unique_ptr frees.
Base_destructor(s) == [s EXCEPT !._tempObject = NULL]


\* ------------------------------------------------------------ the server
\* The web server routes requests to the handler one after the other: canHandle,
\* then handleBody per body fragment, then handleRequest, unless the connection
\* drops first.  A chunked dispatch goes on in the background meanwhile.
NoRx == [id |-> 0, phase |-> "none", total |-> 0, nfrags |-> 0, covered |-> {},
         exact |-> TRUE, allocFailed |-> FALSE]

\* A context that runs no method of the handler.
NoFrame == [pc |-> "idle", proc |-> "none", index |-> 0, data |-> <<>>,
            chunk_size |-> 0]
NoCalls == [r \in 1..MaxRequests |-> <<>>]
NoDeclared == [r \in 1..MaxRequests |-> -1]

HandlerInit ==
    /\ kind \in Kinds
    /\ platform \in Platforms
    /\ (kind = "oneshot" => platform = "OTHER")
    /\ alive = TRUE
    /\ _maxContentLength = MAX_JSON_CONTENT_LENGTH
    /\ _contentLength = 0
    /\ _tempObject = NULL
    /\ _tempObjectSize = 0
    /\ _bufferReady = FALSE
    /\ _onRequest = TRUE
    /\ _currentRequest = 0
    /\ _processIndex = 0
    /\ _timerInitialized = FALSE
    /\ _chunkTimer = 0
    /\ armed = FALSE
    /\ inflight = "none"
    /\ timers = {}
    /\ calls = NoCalls
    /\ ev = NoEvent("construct", 0)
    /\ rx = NoRx
    /\ declared = NoDeclared
    /\ nextId = 1
    /\ task = [main |-> NoFrame, timer |-> NoFrame]

\* No ChunkPrint, no response and no bounds check are under study.
NoWrites == [n |-> 0, ret |-> 0, skipped |-> 0, copied |-> 0, sum |-> 0,
             from |-> 0, stored |-> {}]
NoFill == [n |-> 0, len |-> 0, sent |-> 0, payload |-> <<>>, valid |-> FALSE,
           count |-> 0, bytes |-> <<>>, pure |-> TRUE]
NoChk == [n |-> 0, index |-> 0, len |-> 0, capacity |-> 0, copied |-> FALSE]

PrintInit ==
    /\ _destination = <<>>
    /\ _to_skip = 0
    /\ _to_write = 0
    /\ _pos = 0
    /\ _max_size = 0
    /\ wr = NoWrites

ResponseInit ==
    /\ _jsonBuffer = <<>>
    /\ _isValid = FALSE
    /\ _sentLength = 0
    /\ fill = NoFill

Init == HandlerInit /\ PrintInit /\ ResponseInit /\ chk = NoChk

Idle == rx.phase # "receiving"

\* The handler is configured before the server routes requests to it.
setMaxContentLength(maxContentLength) ==
    /\ alive /\ nextId = 1
    /\ Commit([Begin(self, "setMaxContentLength", 0)
                  EXCEPT !._maxContentLength = maxContentLength])
    /\ UNCHANGED <<uvars, kind, platform, alive, rx, declared, nextId, task>>

\* The callback is replaced; it is taken away (an empty std::function) only
\* under a request that canHandle has already accepted, where it shows.
onRequest(fn) ==
    /\ alive
    /\ (~fn => rx.phase = "receiving")
    /\ Commit([Begin(self, "onRequest", 0) EXCEPT !._onRequest = fn])
    /\ UNCHANGED <<uvars, kind, platform, alive, rx, declared, nextId, task>>

\* canHandle answered true: a request with declared body length total begins.
canHandle(total) ==
    /\ alive /\ Idle
    /\ nextId <= MaxRequests
    /\ _onRequest
    /\ rx' = [NoRx EXCEPT !.id = nextId, !.phase = "receiving", !.total = total]
    /\ declared' = [declared EXCEPT ![nextId] = total]
    /\ nextId' = nextId + 1
    /\ Commit(Begin(self, "canHandle", nextId))
    /\ UNCHANGED <<uvars, kind, platform, alive, task>>

HandleBody(index, len, mallocOK) ==
    /\ alive
    /\ rx.phase = "receiving"
    /\ rx.total > 0
    /\ rx.nfrags < MaxFrags
    /\ LET s == handleBody(Begin(self, "handleBody", rx.id), rx.id,
                           Payload(rx.id, index, len), index, rx.total, mallocOK)
           range == index .. (index + len - 1)
       IN  /\ Commit(s)
           /\ rx' = [rx EXCEPT
                        !.nfrags = @ + 1,
                        !.covered = @ \cup range,
                        !.exact = @ /\ range \cap rx.covered = {}
                                    /\ index + len <= rx.total,
                        !.allocFailed = @ \/ s.ev.allocFailed]
    /\ UNCHANGED <<uvars, kind, platform, alive, declared, nextId, task>>

HandleRequestOnce(parseOK) ==
    /\ alive /\ kind = "oneshot"
    /\ rx.phase = "receiving"
    /\ Commit(CallbackJson_handleRequest(Begin(self, "handleRequest", rx.id),
                                         rx.id, parseOK))
    /\ rx' = [rx EXCEPT !.phase = "handled"]
    /\ UNCHANGED <<uvars, kind, platform, alive, declared, nextId, task>>

HandleRequestStream(createOK, mallocOK) ==
    /\ alive /\ kind = "stream"
    /\ rx.phase = "receiving"
    /\ Commit(Stream_handleRequest(Begin(self, "handleRequest", rx.id),
                                   rx.id, createOK, mallocOK))
    /\ rx' = [rx EXCEPT !.phase = "handled"]
    /\ UNCHANGED <<uvars, kind, platform, alive, declared, nextId, task>>

\* The connection drops before the body is complete: no handleRequest follows.
Abandon ==
    /\ alive
    /\ rx.phase = "receiving"
    /\ rx' = [NoRx EXCEPT !.phase = "abandoned"]
    /\ Commit(Begin(self, "abandon", rx.id))
    /\ UNCHANGED <<uvars, kind, platform, alive, declared, nextId, task>>

\* ESP8266: the Ticker runs its callback between two handlers of the loop.
TickerFire(mallocOK) ==
    /\ alive /\ platform = "ESP8266" /\ armed
    /\ Commit(processNextChunk(
           [Begin(self, "timer", _currentRequest) EXCEPT !.armed = FALSE], mallocOK))
    /\ UNCHANGED <<uvars, kind, platform, alive, rx, declared, nextId, task>>

\* ESP32: the timer expires and the timer task takes the callback up ...
TimerExpire ==
    /\ platform = "ESP32" /\ armed /\ inflight = "none"
    /\ armed' = FALSE
    /\ inflight' = "live"
    /\ UNCHANGED <<uvars, kind, platform, alive, _maxContentLength, _contentLength,
                   _tempObject, _tempObjectSize, _bufferReady, _onRequest,
                   _currentRequest, _processIndex, _timerInitialized, _chunkTimer,
                   timers, calls, ev, rx, declared, nextId, task>>

\* ... and runs it: timerCallback(arg) calls arg->processNextChunk().
timerCallback(mallocOK) ==
    /\ alive /\ platform = "ESP32" /\ inflight # "none"
    /\ Commit(processNextChunk(
           [Begin(self, "timer", _currentRequest)
               EXCEPT !.inflight = "none", !.ev.stale = (inflight = "stale")],
           mallocOK))
    /\ UNCHANGED <<uvars, kind, platform, alive, rx, declared, nextId, task>>

\* The same after the destructor: arg dangles, and what the freed object's
\* fields make processNextChunk do is not defined; it may return at its guard or
\* call the user callback.
timerCallbackDangling(callsBack) ==
    /\ ~alive /\ platform = "ESP32" /\ inflight # "none"
    /\ Commit([Begin(self, "timer", 0)
                  EXCEPT !.inflight = "none", !.ev.stale = TRUE,
                         !.ev.ncalls = IF callsBack THEN 1 ELSE 0])
    /\ UNCHANGED <<uvars, kind, platform, alive, rx, declared, nextId, task>>

\* The handler is destroyed; the server routes nothing to it any more, and the
\* record of its requests is dropped with it.
Destroy ==
    /\ alive
    /\ alive' = FALSE
    /\ LET s0 == [Begin(self, "destructor", 0) EXCEPT !.calls = NoCalls] IN
       IF kind = "oneshot"
       THEN Commit(Base_destructor(s0))
       ELSE Commit(Stream_destructor(s0))
    /\ rx' = NoRx
    /\ declared' = NoDeclared
    /\ UNCHANGED <<uvars, kind, platform, nextId, task>>

\* The fragment offsets the server may present: the start of the body, the
\* chunk boundary, and the largest size_t.
Indexes == {0, CHUNK_OBJ_SIZE, SizeMax}

\* The answers of malloc, esp_timer_create and the parser that a call can meet:
\* both where the call asks, success alone (it goes unread) where it does not.
Answers(asked) == IF asked THEN BOOLEAN ELSE {TRUE}

Next ==
    \/ \E m \in MaxLengths : setMaxContentLength(m)
    \/ \E fn \in BOOLEAN : onRequest(fn)
    \/ \E total \in Totals : canHandle(total)
    \/ \E index \in Indexes, len \in 1..MaxFragLen,
             mallocOK \in Answers(_tempObject = NULL) :
          HandleBody(index, len, mallocOK)
    \/ \E parseOK \in Answers(_bufferReady) : HandleRequestOnce(parseOK)
    \/ \E createOK \in Answers(platform = "ESP32" /\ ~_timerInitialized),
             mallocOK \in Answers(_bufferReady) :
          HandleRequestStream(createOK, mallocOK)
    \/ Abandon
    \/ \E mallocOK \in BOOLEAN : TickerFire(mallocOK)
    \/ TimerExpire
    \/ \E mallocOK \in BOOLEAN : timerCallback(mallocOK)
    \/ \E callsBack \in BOOLEAN : timerCallbackDangling(callsBack)
    \/ Destroy

Spec == Init /\ [][Next]_vars


\* ------------------------------------------- ESP32, statement by statement
\* On ESP32 the timer is created with dispatch_method = ESP_TIMER_TASK: its
\* callback runs in the esp_timer task, which preempts the task the server
\* calls the handler from.  The handler takes no lock, so here its methods run
\* in the steps below, and the steps of the two contexts interleave.
Frame(ctx) == task[ctx]
Goto(ctx, pc) == task' = [task EXCEPT ![ctx].pc = pc]
Return(ctx) == task' = [task EXCEPT ![ctx] = NoFrame]
MainIdle == task.main.pc = "idle"

InitRTOS == Init /\ kind = "stream" /\ platform = "ESP32"

RT_canHandle(total) == MainIdle /\ canHandle(total)

RT_Abandon == MainIdle /\ Abandon

\* handleBody, lines 210-218: the checks, the allocation and the bounds check.
RT_handleBodyEnter(index, len, mallocOK) ==
    /\ alive /\ MainIdle
    /\ rx.phase = "receiving" /\ rx.total > 0 /\ rx.nfrags < MaxFrags
    /\ LET data == Payload(rx.id, index, len)
           c == handleBodyCheck(Begin(self, "handleBody", rx.id), rx.id, data,
                                index, rx.total, mallocOK)
           range == index .. (index + len - 1)
       IN  /\ Commit(c.st)
           /\ rx' = [rx EXCEPT
                        !.nfrags = @ + 1,
                        !.covered = @ \cup range,
                        !.exact = @ /\ range \cap rx.covered = {}
                                    /\ index + len <= rx.total,
                        !.allocFailed = @ \/ c.st.ev.allocFailed]
           /\ task' = IF c.fits
                      THEN [task EXCEPT !.main = [NoFrame EXCEPT
                                !.pc = "memcpy", !.proc = "handleBody",
                                !.index = index, !.data = data]]
                      ELSE task
    /\ UNCHANGED <<uvars, kind, platform, alive, declared, nextId>>

\* handleBody, line 219: the memcpy, into whatever _tempObject is by now.
RT_handleBodyMemcpy ==
    /\ alive /\ Frame("main").pc = "memcpy"
    /\ Commit(memcpy(self, Frame("main").index, Frame("main").data))
    /\ Return("main")
    /\ UNCHANGED <<uvars, kind, platform, alive, rx, declared, nextId>>

\* handleRequest, lines 429-454: the rejections, the start of the session and
\* initializeTimer.
RT_handleRequestEnter(createOK) ==
    /\ alive /\ MainIdle
    /\ rx.phase = "receiving"
    /\ LET c == Stream_handleRequestChecks(Begin(self, "handleRequest", rx.id), rx.id)
           t == initializeTimer(c.st, createOK, rx.id)
       IN  IF ~c.pass THEN Commit(c.st) /\ UNCHANGED task
           ELSE IF ~t.ret
                THEN /\ Commit(send(t.st, rx.id, 500))
                     /\ task' = [task EXCEPT !.main = [NoFrame EXCEPT
                                    !.pc = "cleanupRelease", !.proc = "handleRequest"]]
                ELSE /\ Commit(t.st)
                     /\ task' = [task EXCEPT !.main = [NoFrame EXCEPT
                                    !.pc = "guard", !.proc = "handleRequest"]]
    /\ rx' = [rx EXCEPT !.phase = "handled"]
    /\ UNCHANGED <<uvars, kind, platform, alive, declared, nextId>>

\* The timer expires: the esp_timer task calls timerCallback(this).
RT_timerCallback ==
    /\ alive /\ armed /\ Frame("timer").pc = "idle"
    /\ Commit([Begin(self, "timer", _currentRequest) EXCEPT !.armed = FALSE])
    /\ task' = [task EXCEPT !.timer = [NoFrame EXCEPT
                   !.pc = "guard", !.proc = "timerCallback"]]
    /\ UNCHANGED <<uvars, kind, platform, alive, rx, declared, nextId>>

\* processNextChunk, lines 323-332.
RT_guard(ctx) ==
    /\ alive /\ Frame(ctx).pc = "guard"
    /\ IF processNextChunkGuard(self) \/ chunkSize(self) = 0
       THEN Goto(ctx, "cleanupRelease")
       ELSE task' = [task EXCEPT ![ctx].pc = "deliver",
                                 ![ctx].chunk_size = chunkSize(self)]
    /\ UNCHANGED <<uvars, kind, platform, alive, hvars, rx, declared, nextId>>

\* processNextChunk, lines 335-353.
RT_deliver(ctx, mallocOK) ==
    /\ alive /\ Frame(ctx).pc = "deliver"
    /\ LET d == deliverChunk(self, Frame(ctx).chunk_size, mallocOK) IN
          /\ Commit(d.st)
          /\ Goto(ctx, IF d.ok THEN "advance" ELSE "cleanupRelease")
    /\ UNCHANGED <<uvars, kind, platform, alive, rx, declared, nextId>>

\* processNextChunk, lines 354-360.
RT_advance(ctx) ==
    /\ alive /\ Frame(ctx).pc = "advance"
    /\ LET a == advanceChunk(self, Frame(ctx).chunk_size) IN
          /\ Commit(a.st)
          /\ IF a.cleanup THEN Goto(ctx, "cleanupRelease") ELSE Return(ctx)
    /\ UNCHANGED <<uvars, kind, platform, alive, rx, declared, nextId>>

\* cleanup, lines 305-309.
RT_cleanupRelease(ctx) ==
    /\ alive /\ Frame(ctx).pc = "cleanupRelease"
    /\ Commit(Stream_cleanupRelease(self))
    /\ Goto(ctx, "cleanupTimer")
    /\ UNCHANGED <<uvars, kind, platform, alive, rx, declared, nextId>>

\* cleanup, lines 314-317; every caller but the destructor then returns.
RT_cleanupTimer(ctx) ==
    /\ alive /\ Frame(ctx).pc = "cleanupTimer"
    /\ Commit(Stream_cleanupTimer(self))
    /\ IF Frame(ctx).proc = "destructor" THEN Goto(ctx, "delete") ELSE Return(ctx)
    /\ UNCHANGED <<uvars, kind, platform, alive, rx, declared, nextId>>

RT_destructorEnter ==
    /\ alive /\ MainIdle
    /\ Commit(Begin(self, "destructor", 0))
    /\ task' = [task EXCEPT !.main = [NoFrame EXCEPT
                   !.pc = "cleanupRelease", !.proc = "destructor"]]
    /\ UNCHANGED <<uvars, kind, platform, alive, rx, declared, nextId>>

\* ~AsyncJsonStreamCallback, lines 414-416; the object is gone after it.
RT_destructorDelete ==
    /\ alive /\ Frame("main").pc = "delete"
    /\ alive' = FALSE
    /\ Commit([Stream_destructorDelete(self) EXCEPT !.calls = NoCalls])
    /\ rx' = NoRx
    /\ declared' = NoDeclared
    /\ Goto("main", "dead")
    /\ UNCHANGED <<uvars, kind, platform, nextId>>

\* The timer task is still inside processNextChunk when the object is gone:
\* what it does from there is not defined.
RT_timerDangling(callsBack) ==
    /\ ~alive /\ Frame("timer").pc # "idle"
    /\ Commit([Begin(self, "timer", 0)
                  EXCEPT !.ev.stale = TRUE,
                         !.ev.ncalls = IF callsBack THEN 1 ELSE 0])
    /\ Return("timer")
    /\ UNCHANGED <<uvars, kind, platform, alive, rx, declared, nextId>>

Contexts == {"main", "timer"}

\* What matters here is where a fragment arrives in time, not where it lands:
\* the fragments are the longest ones, at the start and at the chunk boundary.
RT_Indexes == {0, CHUNK_OBJ_SIZE}

NextRTOS ==
    \/ \E total \in Totals : RT_canHandle(total)
    \/ RT_Abandon
    \/ \E index \in RT_Indexes, mallocOK \in Answers(_tempObject = NULL) :
          RT_handleBodyEnter(index, MaxFragLen, mallocOK)
    \/ RT_handleBodyMemcpy
    \/ \E createOK \in Answers(~_timerInitialized) : RT_handleRequestEnter(createOK)
    \/ RT_timerCallback
    \/ \E ctx \in Contexts : RT_guard(ctx)
    \/ \E ctx \in Contexts, mallocOK \in BOOLEAN : RT_deliver(ctx, mallocOK)
    \/ \E ctx \in Contexts : RT_advance(ctx)
    \/ \E ctx \in Contexts : RT_cleanupRelease(ctx)
    \/ \E ctx \in Contexts : RT_cleanupTimer(ctx)
    \/ RT_destructorEnter
    \/ RT_destructorDelete
    \/ \E callsBack \in BOOLEAN : RT_timerDangling(callsBack)

SpecRTOS == InitRTOS /\ [][NextRTOS]_vars

\* The same with the scheduling FreeRTOS gives: an armed timer expires, and a
\* method that has been entered, in either context, runs on to its return.
RTOSRuns ==
    /\ WF_vars(RT_timerCallback)
    /\ WF_vars(RT_handleBodyMemcpy)
    /\ WF_vars(RT_destructorDelete)
    /\ \A ctx \in Contexts :
          /\ WF_vars(RT_guard(ctx))
          /\ WF_vars(\E mallocOK \in BOOLEAN : RT_deliver(ctx, mallocOK))
          /\ WF_vars(RT_advance(ctx))
          /\ WF_vars(RT_cleanupRelease(ctx))
          /\ WF_vars(RT_cleanupTimer(ctx))

SpecRTOSFair == SpecRTOS /\ RTOSRuns

\* ------------------------------------------------- chunked dispatch, fair
\* The streaming handler on the builds that dispatch in chunks, configured as
\* constructed and receiving fragments at the start of the body and at the
\* chunk boundary.  An armed Ticker fires, an
\* armed esp_timer expires, and the timer task runs the callback it has taken
\* up.
InitStream == Init /\ kind = "stream" /\ platform \in {"ESP8266", "ESP32"}

NextStream ==
    \/ \E total \in Totals : canHandle(total)
    \/ \E index \in RT_Indexes, len \in 1..MaxFragLen,
             mallocOK \in Answers(_tempObject = NULL) :
          HandleBody(index, len, mallocOK)
    \/ \E createOK \in Answers(platform = "ESP32" /\ ~_timerInitialized),
             mallocOK \in Answers(_bufferReady) :
          HandleRequestStream(createOK, mallocOK)
    \/ Abandon
    \/ \E mallocOK \in BOOLEAN : TickerFire(mallocOK)
    \/ TimerExpire
    \/ \E mallocOK \in BOOLEAN : timerCallback(mallocOK)
    \/ \E callsBack \in BOOLEAN : timerCallbackDangling(callsBack)
    \/ Destroy

TimersFire ==
    /\ WF_vars(\E mallocOK \in BOOLEAN : TickerFire(mallocOK))
    /\ WF_vars(TimerExpire)
    /\ WF_vars(\E mallocOK \in BOOLEAN : timerCallback(mallocOK))

SpecStream == InitStream /\ [][NextStream]_vars /\ TimersFire

\* -------------------------------------------------------------- ChunkPrint
\* Bounds of the ChunkPrint study: the largest from, len and max_size a cursor
\* is constructed with, the most bytes one write presents, and the number of
\* write calls on one cursor.
MaxSkip == 2
MaxBudget == 3
MaxLimit == 2
MaxWrite == 4
MaxWrites == 3

SubSizeT(a, b) == (a - b + SizeModulus) % SizeModulus

\* ChunkPrint(destination, from, len, max_size).  `stored` is not a field: it
\* collects the destination indexes the cursor has stored a byte at.
ChunkPrint(destination, from, len, max_size) ==
    [_destination |-> destination, _to_skip |-> from, _to_write |-> len,
     _pos |-> 0, _max_size |-> max_size, stored |-> {}]

\* _destination[at ..] = bytes; what falls outside the destination is a write
\* to foreign memory and leaves the destination's own bytes alone.
store(cp, at, bytes) ==
    [cp EXCEPT !._destination =
                   [i \in 1..Len(@) |->
                       IF i > at /\ i <= at + Len(bytes) THEN bytes[i - at] ELSE @[i]],
               !.stored = @ \cup {at + k - 1 : k \in 1..Len(bytes)}]

\* size_t write(uint8_t c): the cursor after the call, the value returned, and
\* how many input bytes the call skipped and copied.
write_c(cp, c) ==
    IF cp._to_skip > 0
    THEN [cp |-> [cp EXCEPT !._to_skip = @ - 1], ret |-> 1, skipped |-> 1, copied |-> 0]
    ELSE IF cp._to_write > 0 /\ cp._pos < cp._max_size
         THEN [cp |-> [store(cp, cp._pos, <<c>>) EXCEPT
                          !._pos = AddSizeT(@, 1), !._to_write = @ - 1],
               ret |-> 1, skipped |-> 0, copied |-> 1]
         ELSE [cp |-> cp, ret |-> 0, skipped |-> 0, copied |-> 0]

\* The tail of write(buffer, size) after the skip, without _max_size - _pos in
\* the minimum.
write_tail_NoLimit(cp, buffer, skip_amount) ==
    LET size == Len(buffer)
        available_space == Min(cp._to_write, size)
    IN  [cp |-> [store(cp, cp._pos, SubSeq(buffer, 1, available_space)) EXCEPT
                    !._pos = AddSizeT(@, available_space),
                    !._to_write = @ - available_space],
         ret |-> size, skipped |-> skip_amount, copied |-> available_space]

\* The tail of write(buffer, size) after the skip: lines 81-89, buffer and size
\* being what the skip left.
write_tail(cp, buffer, skip_amount) ==
    LET size == Len(buffer)
        available_space == Min(cp._to_write, Min(SubSizeT(cp._max_size, cp._pos), size))
    IN  [cp |-> [store(cp, cp._pos, SubSeq(buffer, 1, available_space)) EXCEPT
                    !._pos = AddSizeT(@, available_space),
                    !._to_write = @ - available_space],
         ret |-> size, skipped |-> skip_amount, copied |-> available_space]

\* size_t write(const uint8_t* buffer, size_t size), buffer not null.
write_buffer(cp, buffer) ==
    IF Len(buffer) = 0
    THEN [cp |-> cp, ret |-> 0, skipped |-> 0, copied |-> 0]
    ELSE IF cp._to_skip > 0
         THEN LET skip_amount == Min(cp._to_skip, Len(buffer))
                  cp1 == [cp EXCEPT !._to_skip = @ - skip_amount]
                  rest == SubSeq(buffer, skip_amount + 1, Len(buffer))
              IN  IF Len(rest) = 0
                  THEN [cp |-> cp1, ret |-> skip_amount,
                        skipped |-> skip_amount, copied |-> 0]
                  ELSE write_tail(cp1, rest, skip_amount)
         ELSE write_tail(cp, buffer, 0)

getWrittenBytes(cp) == cp._pos

\* The cursor under study, as one record, and back into the variables.
dest ==
    [_destination |-> _destination, _to_skip |-> _to_skip, _to_write |-> _to_write,
     _pos |-> _pos, _max_size |-> _max_size, stored |-> wr.stored]

\* The result w of the write of `size` bytes becomes the state.
Written(w) ==
    /\ _destination' = w.cp._destination
    /\ _to_skip' = w.cp._to_skip
    /\ _to_write' = w.cp._to_write
    /\ _pos' = w.cp._pos
    /\ _max_size' = w.cp._max_size
    /\ wr' = [wr EXCEPT !.n = @ + 1, !.ret = w.ret, !.skipped = w.skipped,
                        !.copied = w.copied, !.sum = @ + w.ret,
                        !.stored = w.cp.stored]

\* A cursor is constructed over a destination of max_size bytes.
InitPrint ==
    /\ HandlerInit /\ kind = "oneshot"
    /\ ResponseInit /\ chk = NoChk
    /\ \E from \in 0..MaxSkip, len \in 0..MaxBudget, max_size \in 0..MaxLimit :
          /\ _destination = [i \in 1..max_size |-> Uninit]
          /\ _to_skip = from
          /\ _to_write = len
          /\ _pos = 0
          /\ _max_size = max_size
          /\ wr = [NoWrites EXCEPT !.from = from]

\* The input bytes of the next write call.
Input(size) == [k \in 1..size |-> <<wr.n + 1, k - 1>>]

WriteByte ==
    /\ wr.n < MaxWrites
    /\ Written(write_c(dest, Input(1)[1]))
    /\ UNCHANGED <<svars, _jsonBuffer, _isValid, _sentLength, fill, chk>>

WriteBuffer(size) ==
    /\ wr.n < MaxWrites
    /\ Written(write_buffer(dest, Input(size)))
    /\ UNCHANGED <<svars, _jsonBuffer, _isValid, _sentLength, fill, chk>>

NextPrint ==
    \/ WriteByte
    \/ \E size \in 0..MaxWrite : WriteBuffer(size)

SpecPrint == InitPrint /\ [][NextPrint]_vars

\* ------------------------------------------------------- AsyncJsonResponse
\* Bounds of the response study: the longest payload, and the largest len
\* _fillBuffer is called with.
MaxPayload == 3
MaxLen == 3

\* The response under study, as one record.
response ==
    [_jsonBuffer |-> _jsonBuffer, _isValid |-> _isValid, _sentLength |-> _sentLength]

\* setLength.  (_contentLength of the base class, which nothing here reads, is
\* left out.)
setLength(r) == [r EXCEPT !._isValid = Len(r._jsonBuffer) > 0]

\* A _fillBuffer that moves _sentLength on by what it wrote.
_fillBuffer_Advancing(r, data, len) ==
    IF len = 0 \/ ~r._isValid THEN [st |-> r, ret |-> 0, data |-> data]
    ELSE LET json_size == Len(r._jsonBuffer) IN
         IF r._sentLength >= json_size THEN [st |-> r, ret |-> 0, data |-> data]
         ELSE LET d == ChunkPrint(data, 0, len, len)
                  remaining == SubSizeT(json_size, r._sentLength)
                  to_write == Min(len, remaining)
                  w == write_buffer(d, SubSeq(r._jsonBuffer, r._sentLength + 1,
                                              r._sentLength + to_write))
              IN  [st |-> [r EXCEPT !._sentLength = @ + getWrittenBytes(w.cp)],
                   ret |-> getWrittenBytes(w.cp), data |-> w.cp._destination]

\* _fillBuffer(data, len), data not null: the response afterwards, the value
\* returned and the bytes of data afterwards.
_fillBuffer(r, data, len) ==
    IF len = 0 \/ ~r._isValid THEN [st |-> r, ret |-> 0, data |-> data]
    ELSE LET json_size == Len(r._jsonBuffer) IN
         IF r._sentLength >= json_size THEN [st |-> r, ret |-> 0, data |-> data]
         ELSE LET d == ChunkPrint(data, 0, len, len)
                  remaining == SubSizeT(json_size, r._sentLength)
                  to_write == Min(len, remaining)
                  w == write_buffer(d, SubSeq(r._jsonBuffer, r._sentLength + 1,
                                              r._sentLength + to_write))
              IN  [st |-> r, ret |-> getWrittenBytes(w.cp),
                   data |-> w.cp._destination]

InitFill ==
    /\ HandlerInit /\ kind = "oneshot"
    /\ PrintInit /\ ResponseInit /\ chk = NoChk

\* The user builds the payload through getRoot(), one byte at a time.
GetRootAdd ==
    /\ Len(_jsonBuffer) < MaxPayload
    /\ _jsonBuffer' = Append(_jsonBuffer, <<1, Len(_jsonBuffer)>>)
    /\ UNCHANGED <<svars, _destination, _to_skip, _to_write, _pos, _max_size, wr,
                   _isValid, _sentLength, fill, chk>>

SetLength ==
    /\ _isValid' = setLength(response)._isValid
    /\ UNCHANGED <<svars, _destination, _to_skip, _to_write, _pos, _max_size, wr,
                   _jsonBuffer, _sentLength, fill, chk>>

\* The base class has sent more of the payload: _sentLength is now n.
Sent(n) ==
    /\ n > _sentLength
    /\ _sentLength' = n
    /\ UNCHANGED <<svars, _destination, _to_skip, _to_write, _pos, _max_size, wr,
                   _jsonBuffer, _isValid, fill, chk>>

\* The base class pulls up to len bytes into a buffer of len bytes.
FillBuffer(len) ==
    LET f == _fillBuffer(response, [i \in 1..len |-> Uninit], len) IN
    /\ _jsonBuffer' = f.st._jsonBuffer
    /\ _isValid' = f.st._isValid
    /\ _sentLength' = f.st._sentLength
    /\ fill' = [n |-> 1, len |-> len, sent |-> _sentLength, payload |-> _jsonBuffer,
                valid |-> _isValid, count |-> f.ret,
                bytes |-> SubSeq(f.data, 1, f.ret), pure |-> f.st = response]
    /\ UNCHANGED <<svars, _destination, _to_skip, _to_write, _pos, _max_size, wr, chk>>

NextFill ==
    \/ GetRootAdd
    \/ SetLength
    \/ \E n \in 1..(MaxPayload + 1) : Sent(n)
    \/ \E len \in 0..MaxLen : FillBuffer(len)

SpecFill == InitFill /\ [][NextFill]_vars

\* ------------------------------------------- the bounds check of handleBody
\* A handler that holds a ready buffer of `capacity` bytes, as allocateBuffer
\* leaves it for a request of that total.
Holding(capacity) ==
    [Begin(self, "handleBody", 1) EXCEPT
        !._maxContentLength = SizeMax,
        !._contentLength = capacity,
        !._tempObject = [i \in 1..capacity |-> Uninit],
        !._tempObjectSize = capacity,
        !._bufferReady = TRUE]

InitArith == InitFill

\* handleBody is called with a fragment of len bytes at index, for every index
\* and len of size_t, on a buffer of every capacity.
BoundsCheck(index, len, capacity) ==
    /\ chk' = [n |-> 1, index |-> index, len |-> len, capacity |-> capacity,
               copied |-> handleBody(Holding(capacity), 1, Payload(1, index, len),
                                     index, capacity, TRUE).ev.copied]
    /\ UNCHANGED <<svars, _destination, _to_skip, _to_write, _pos, _max_size, wr,
                   _jsonBuffer, _isValid, _sentLength, fill>>

NextArith ==
    \E index \in 0..SizeMax, len \in 1..SizeMax, capacity \in 1..SizeMax :
        BoundsCheck(index, len, capacity)

SpecArith == InitArith /\ [][NextArith]_vars

\* ------------------------------------------------------------- the claims
Clean == _tempObject = NULL /\ _tempObjectSize = 0 /\ ~_bufferReady

\* The request under reception has been delivered in fragments that do not
\* overlap and cover exactly [0, total).
CoveredExactly == rx.exact /\ rx.covered = 0 .. (rx.total - 1)

\* C1: no handleBody call writes outside [0, capacity): a call copies only a
\* fragment that ends within the buffer, and a call that drops its fragment
\* copies nothing and has not changed capacity or readiness by allocating.
C1_WritesStayInside ==
    ev.op = "handleBody" =>
        /\ (ev.copied => ~ev.oobWrite)
        /\ (ev.dropped => ~ev.copied /\ ~ev.allocated)

\* C2: once non-overlapping fragments have covered exactly [0, T) of a request
\* with 0 < T <= max (and no malloc failed), the accumulator is ready and holds
\* at every offset the byte the request carried there.
C2_AssembledExactly ==
    (/\ rx.phase = "receiving" /\ ev.op = "handleBody"
     /\ rx.total > 0 /\ rx.total <= _maxContentLength
     /\ CoveredExactly /\ ~rx.allocFailed)
    => /\ _bufferReady
       /\ Len(_tempObject) >= rx.total
       /\ \A i \in 0 .. (rx.total - 1) : _tempObject[i + 1] = <<rx.id, i>>

\* C3: for a request whose declared total exceeds the maximum, handleBody
\* neither allocates nor copies, the handleRequest that follows (a callback
\* being configured) answers 413, and the user callback is never invoked for it.
C3_OversizedRejected ==
    /\ (ev.op = "handleBody" /\ rx.total > _maxContentLength)
          => ~ev.allocated /\ ~ev.allocFailed /\ ~ev.copied
    /\ (ev.op = "handleRequest" /\ rx.total > _maxContentLength
        /\ rx.nfrags > 0 /\ _onRequest)
          => ev.status = 413 /\ ev.ncalls = 0 /\ _currentRequest # rx.id
    /\ (rx.id # 0 /\ rx.total > _maxContentLength /\ rx.nfrags > 0)
          => calls[rx.id] = <<>>

\* C3's case: with a buffer held from an earlier request, an oversized request
\* has delivered a fragment and has been answered 413.
C3_Witness ==
    /\ ev.op = "handleRequest" /\ rx.total > _maxContentLength /\ rx.nfrags > 0
    /\ _onRequest /\ ev.status = 413 /\ _tempObject # NULL

\* C4: a request whose fragments cover fewer bytes than its declared total
\* never makes the accumulator ready, and handleRequest answers it 400 without
\* invoking the user callback.
C4_IncompleteRejected ==
    (/\ rx.phase \in {"receiving", "handled"}
     /\ rx.total > 0 /\ rx.total <= _maxContentLength
     /\ Cardinality(rx.covered \cap 0 .. (rx.total - 1)) < rx.total)
    => /\ ~_bufferReady
       /\ (ev.op = "handleRequest" /\ _onRequest
              => ev.status = 400 /\ ev.ncalls = 0)

\* C5: after every delivery attempt the accumulator is reset: when handleRequest
\* of the one-shot handler returns, and when a streaming session has ended
\* (handleRequest or the timer callback returns with no request current).
C5_ResetAfterDelivery ==
    (/\ alive
     /\ \/ (kind = "oneshot" /\ ev.op = "handleRequest")
        \/ (kind = "stream" /\ ev.op \in {"handleRequest", "timer"}
            /\ _currentRequest = 0))
    => Clean

RECURSIVE SumLengths(_)
SumLengths(slices) ==
    IF slices = <<>> THEN 0 ELSE Head(slices)[2] + SumLengths(Tail(slices))

SlicesInOrder(r) ==
    \A i \in 1 .. Len(calls[r]) :
        /\ calls[r][i][1] = (i - 1) * CHUNK_OBJ_SIZE
        /\ calls[r][i][2] = Min(CHUNK_OBJ_SIZE, declared[r] - (i - 1) * CHUNK_OBJ_SIZE)

LastChunkDelivered ==
    ev.op \in {"handleRequest", "timer"} /\ ev.req # 0 /\ ev.ncalls = 1 /\ ev.cleaned

\* The session that just ended belongs to the request last received, and that
\* request's body of 1 .. max bytes arrived whole.
WholeBodyReceived ==
    /\ rx.id = ev.req /\ rx.phase = "handled"
    /\ rx.total > 0 /\ rx.total <= _maxContentLength
    /\ CoveredExactly /\ ~rx.allocFailed

\* C6: on the builds that dispatch in chunks (ESP8266, ESP32), the slices the
\* user callback gets for a request whose body of N bytes arrived whole are at
\* offsets 0, C, 2C, ..., each min(C, remaining) long, and
\* when the last chunk has been delivered their lengths add up to N.
C6_SlicesCoverPayload ==
    (/\ alive /\ kind = "stream" /\ platform \in {"ESP8266", "ESP32"}
     /\ LastChunkDelivered /\ WholeBodyReceived) =>
        /\ SlicesInOrder(ev.req)
        /\ SumLengths(calls[ev.req]) = declared[ev.req]

\* A session is Dispatching: a request is current and its chunk timer is pending.
Dispatching == _currentRequest # 0 /\ (armed \/ inflight = "live")

\* C7: while a session is Dispatching, no handleBody call allocates or writes
\* the accumulator and no handleRequest replaces the current request.
C7_SingleFlight ==
    [][Dispatching =>
          /\ ~(ev' # ev /\ ev'.op = "handleBody" /\ (ev'.copied \/ ev'.allocated))
          /\ (ev'.op = "handleRequest" => _currentRequest' \in {0, _currentRequest})
      ]_vars

\* C9: a timer callback that runs after its session has ended calls the user
\* callback zero times, reads no accumulator byte, sends no response and
\* arms no timer.
C9_StaleCallbackNoOp ==
    (ev.op = "timer" /\ ev.stale) =>
        ev.ncalls = 0 /\ ev.data = <<>> /\ ev.status = 0 /\ ~ev.scheduled

\* C8: the buffer is never released while the chunk timer is armed: on every
\* path that ends a session the timer is cancelled first.
C8_TimerCancelledBeforeRelease == armed => _tempObject # NULL

\* A context is inside a method of the handler.
InHandler(ctx) == Frame(ctx).pc \notin {"idle", "dead"}

\* C10: the timer task is never inside processNextChunk (or its cleanup) while
\* the main context is inside handleBody, handleRequest, cleanup or the
\* destructor of the same handler.
C10_MutualExclusion == ~(InHandler("main") /\ InHandler("timer"))

\* The accumulator passes the checks handleRequest makes before it parses.
ReadyWithinLimit ==
    /\ _onRequest /\ _contentLength <= _maxContentLength
    /\ _bufferReady /\ _tempObject # NULL /\ _contentLength # 0

\* C11: a handleRequest call of the one-shot handler consults the parser
\* exactly when the body is ready and within the limit, and invokes the user
\* callback once if the parser reports success and never otherwise; when the
\* parser fails 400 is sent; after either answer of the parser the accumulator
\* is reset.
C11_OneShotCallback ==
    [][(kind = "oneshot" /\ rx.phase = "receiving" /\ rx'.phase = "handled") =>
          /\ (ev'.parsed # "none") <=> ReadyWithinLimit
          /\ ev'.ncalls = (IF ev'.parsed = "ok" THEN 1 ELSE 0)
          /\ (ev'.parsed = "ok" => ev'.status = 0)
          /\ (ev'.parsed = "error" => ev'.status = 400)
          /\ (ev'.parsed # "none" => Clean')
      ]_vars

\* C11's case: the parser has failed, 400 was sent without a callback and the
\* accumulator is reset.
C11_Witness ==
    /\ kind = "oneshot" /\ ev.op = "handleRequest" /\ ev.parsed = "error"
    /\ ev.status = 400 /\ ev.ncalls = 0 /\ Clean

\* C12: whatever the cursor was constructed with and whatever was written,
\* _pos never exceeds _max_size and no byte is stored at a destination index
\* at or beyond _max_size.
C12_PositionWithinLimit ==
    /\ _pos <= _max_size
    /\ \A i \in wr.stored : i < _max_size

\* C12's case: the limit is reached with write budget left, by a write that
\* presented more bytes than it could copy.
C12_Witness ==
    /\ _max_size > 0 /\ _pos = _max_size /\ _to_write > 0
    /\ wr.n > 0 /\ wr.copied > 0 /\ wr.ret > wr.copied + wr.skipped

\* C13: a write returns the number of input bytes it skipped plus the number
\* it copied, so the returns add up to the bytes skipped so far plus _pos.
C13_ReturnCountsConsumed ==
    wr.n > 0 =>
        /\ wr.ret = wr.skipped + wr.copied
        /\ wr.sum = (wr.from - _to_skip) + _pos

\* What _fillBuffer owes for a payload, a validity, a sentLength and a len.
Owed(payload, valid, sent, len) ==
    IF valid /\ sent < Len(payload) THEN Min(len, Len(payload) - sent) ELSE 0

\* C14: a _fillBuffer call changes no response state, and returns the count
\* and the bytes that the payload, _sentLength and len alone determine: the
\* min(len, length - sentLength) payload bytes from sentLength on, and 0 once
\* sentLength has reached the length or the payload is not valid.
C14_FillBufferPure ==
    fill.n > 0 =>
        LET owed == Owed(fill.payload, fill.valid, fill.sent, fill.len) IN
        /\ fill.pure
        /\ fill.count = owed
        /\ fill.bytes = SubSeq(fill.payload, fill.sent + 1, fill.sent + owed)

\* C14's case: a call in the middle of a valid payload that len cuts short.
C14_Witness ==
    /\ fill.n > 0 /\ fill.valid /\ fill.sent > 0
    /\ fill.count = fill.len /\ fill.count > 0
    /\ fill.sent + fill.count < Len(fill.payload)

\* C15: while a request within the limit is being received and the accumulator
\* is ready with a buffer present, the capacity is that request's declared
\* total.
C15_CapacityIsDeclaredTotal ==
    (/\ alive /\ rx.phase = "receiving" /\ ev.op = "handleBody"
     /\ rx.total <= _maxContentLength
     /\ _bufferReady /\ _tempObject # NULL)
    => /\ _contentLength = rx.total
       /\ _tempObjectSize = _contentLength

\* The streaming session is Idle: no current request, cursor 0, accumulator
\* reset and no timer armed.
SessionIdle ==
    /\ _currentRequest = 0 /\ _processIndex = 0
    /\ Clean /\ ~armed

\* With handlers that run one after the other, a session that handleRequest
\* has started returns to Idle, and every chunk delivered until then moves the
\* cursor forward.
SequentialSessionEnds ==
    /\ (_currentRequest # 0) ~> SessionIdle
    /\ [][(ev' # ev /\ ev'.ncalls = 1 /\ ~ev'.cleaned /\ alive') =>
              _processIndex' > (IF ev'.op = "timer" THEN _processIndex ELSE 0)]_vars

\* C16: armed timers firing, a session that handleRequest has started
\* eventually returns to Idle (or the handler is destroyed).
C16_SessionReturnsToIdle ==
    (_currentRequest # 0) ~> (SessionIdle \/ ~alive)

\* C17: no delivery reads past the allocation: neither the parser, handed
\* _contentLength bytes, nor a chunk copy reads outside [0, capacity).
C17_ReadsStayInside ==
    (alive /\ ev.op \in {"handleRequest", "timer"}) => ~ev.oobRead

\* C18: no byte handed to the user callback for a request was written by
\* another request, and a request that delivered no body fragment gets no
\* callback.
C18_RequestIsolation ==
    /\ (alive /\ ev.ncalls > 0) =>
           \A k \in 1..Len(ev.data) : ev.data[k] = Uninit \/ ev.data[k][1] = ev.req
    /\ (alive /\ rx.id # 0 /\ rx.nfrags = 0) => calls[rx.id] = <<>>

\* C19: on ESP32 the handler has at most one timer created and not deleted,
\* and none once its destructor has run.
C19_TimerOwnership ==
    platform = "ESP32" =>
        /\ Cardinality(timers) <= 1
        /\ (~alive => timers = {})

\* C20: a fragment whose index + len exceeds the capacity is dropped, for every
\* index and len of size_t, also when index + len wraps around.
C20_BoundsCheckSound ==
    (chk.n > 0 /\ chk.index + chk.len > chk.capacity) => ~chk.copied

=============================================================================
